---- MODULE Spec2Model ----
(***************************************************************************)
(* A model of src/src/http_server.cpp (HttpServer): the route table and    *)
(* its matching loop, the dispatcher catch_all_handler, the immediate and  *)
(* the streamed reply (send_response, stream_response, response_proceed,   *)
(* response_stop), the cross-thread message relay (send_message,           *)
(* on_message, stop, ~HttpServer) and parse_query on its own.              *)
(*                                                                         *)
(* Strings.  A path segment is the record [colon, text]: the string        *)
(* ":" + text when colon holds, and text (which then does not begin with   *)
(* ':') otherwise, so that rpart[0] == ':' is the field colon and          *)
(* rpart.substr(1) is the field text.                                      *)
(*                                                                         *)
(* One request is followed at a time.  The record x holds everything that  *)
(* belongs to it: the calls made to the auth gate and to the route's       *)
(* handler, the heap objects (http_req/http_res pair, generator), the      *)
(* h2o request (status, headers, registered generator) and the writes      *)
(* handed to h2o_send.                                                     *)
(***************************************************************************)
EXTENDS Integers, Sequences, FiniteSets, TLC

VARIABLES
    cors_enabled,   \* HttpServer::cors_enabled, set by the constructor
    routes,         \* HttpServer::routes, in registration order
    req,            \* the request being followed (NoReq before the first one)
    x,              \* the exchange of that request
    message_handlers,   \* HttpServer::message_handlers: the types with a callback
    owner_pc,       \* where the owning thread is in run() and ~HttpServer()
    exit_loop,      \* HttpServer::exit_loop
    stop_pc,        \* where the thread that calls stop() is
    receiver,       \* message_queue and message_receiver: none, registered, freed
    inbox,          \* message_receiver->_messages
    batch,          \* the list the event loop hands to on_message
    wake,           \* the queue has notified the event loop
    sent,           \* the messages each worker thread has sent so far
    delivered,      \* the calls of message callbacks: [type, data, thread]
    deleted,        \* the messages deleted by on_message
    relay_fault,    \* none, race (unlocked drain against a send), use_after_free
    query_str,      \* a query string given to parse_query
    parsed          \* whether parse_query has returned, and the map it returned

dispatch_vars == <<cors_enabled, routes, req, x>>
relay_vars == <<message_handlers, owner_pc, exit_loop, stop_pc, receiver, inbox, batch,
                wake, sent, delivered, deleted, relay_fault>>
query_vars == <<query_str, parsed>>
vars == <<dispatch_vars, relay_vars, query_vars>>

(***************************************************************************)
(* Bounds                                                                  *)
(***************************************************************************)
MaxRoutes == 2      \* routes registered before the server runs
MaxTurns == 2       \* write-ready turns of one streaming exchange
MaxSend == 3        \* messages the worker threads send, all together
MaxPairs == 3       \* key=value pairs of a query string given to parse_query

(***************************************************************************)
(* Strings and small values                                                *)
(***************************************************************************)
AUTH_HEADER == "x-typesense-api-key"
JSON_CONTENT_TYPE == "application/json; charset=utf-8"
NOT_FOUND_BODY == "{ \"message\": \"Not Found\"}"
\* a TLA+ string cannot hold the backquote of the source: an apostrophe stands for it
FORBIDDEN_BODY == "{\"message\": \"Forbidden - a valid '" \o AUTH_HEADER \o "' header must be sent.\"}"

NoReq == [method |-> "none"]
NoHeader == [present |-> FALSE]
Header(v) == [present |-> TRUE, value |-> v]

Lit(t) == [colon |-> FALSE, text |-> t]
Par(t) == [colon |-> TRUE, text |-> t]
\* the std::string a segment stands for
SegStr(s) == IF s.colon THEN ":" \o s.text ELSE s.text

(***************************************************************************)
(* Inputs                                                                  *)
(***************************************************************************)
RoutePaths == { <<Lit("items"), Par("id")>>, <<Par("id"), Par("id")>> }

ReqPaths == { <<Lit("items"), Lit("42")>>, <<Lit("users"), Lit("42")>>, <<Lit("items")>> }

\* a query string, as the key=value matches the regex finds in it, in order
Queries ==
    { <<>>,
      << <<"id", "7">> >>,
      << <<AUTH_HEADER, "k1">> >>,
      << <<"id", "7">>, <<"id", "8%269">> >> }

\* the designated header: absent, present, present with an empty value
AuthHeaders == { NoHeader, Header("k2"), Header("") }

\* the Access-Control-Request-Headers header of an OPTIONS request
AclHeaders == { NoHeader, Header("X-Foo"), Header("X-Foo, X-Bar") }

Requests ==
    [method : {"GET", "POST"}, path_parts : ReqPaths, query : Queries,
     auth_header : AuthHeaders, acl_header : {NoHeader}]
    \cup
    [method : {"OPTIONS"}, path_parts : {<<Lit("items"), Lit("42")>>},
     query : {<<>>, << <<AUTH_HEADER, "k1">> >>},
     auth_header : {NoHeader, Header("k2")}, acl_header : AclHeaders]

\* what a route's handler does while it runs
RouteBehaviours ==
    [act : {"fill", "send", "stream", "defer"}, status : {200}, body : {"ok"}]

\* the requests and the routes of the streaming specification: after
\* get("/items/:id", h1, true) and post("/items/:id", h2, false)
StreamRoutes ==
    << [http_method |-> "GET", path_parts |-> <<Lit("items"), Par("id")>>, handler |-> 1, async |-> TRUE],
       [http_method |-> "POST", path_parts |-> <<Lit("items"), Par("id")>>, handler |-> 2, async |-> FALSE] >>

StreamRequests ==
    [method : {"GET", "POST"}, path_parts : {<<Lit("items"), Lit("42")>>, <<Lit("items")>>},
     query : {<<>>}, auth_header : {NoHeader}, acl_header : {NoHeader}]
    \cup
    [method : {"OPTIONS"}, path_parts : {<<Lit("items"), Lit("42")>>}, query : {<<>>},
     auth_header : {NoHeader}, acl_header : {NoHeader, Header("X-Foo")}]

StreamBehaviours ==
    [act : {"fill", "send", "stream", "defer"}, status : {200, 201}, body : {"", "ok"}]

\* what the resumption handler of a streaming exchange does in one turn
TurnBehaviours == [op : {"append", "replace", "keep"}, final : BOOLEAN]

(***************************************************************************)
(* parse_query                                                             *)
(***************************************************************************)
\* StringUtils::url_decode on the raw values the inputs use
url_decode(raw) ==
    CASE raw = "8%269" -> "8&9"
      [] OTHER -> raw

\* the query strings parse_query is called with on its own: up to MaxPairs
\* matches of the pattern, with repeated keys, empty values and an encoded '&'
QueryKeyNames == {"a", "b"}
RawValues == {"1", "2", "", "8%269"}
QueryStrings == UNION { [1..n -> QueryKeyNames \X RawValues] : n \in 0..MaxPairs }

\* a loop in which a later occurrence of a key replaces the value of an earlier one
RECURSIVE parse_query_from_overwrite(_, _, _)
parse_query_from_overwrite(query, i, query_map) ==
    IF i > Len(query) THEN query_map
    ELSE LET key == query[i][1]
             value == url_decode(query[i][2])
         IN parse_query_from_overwrite(query, i + 1,
                [kk \in DOMAIN query_map \cup {key} |->
                    IF kk = key THEN value ELSE query_map[kk]])

\* the loop of parse_query over the matches of the pattern, from the i-th on
RECURSIVE parse_query_from(_, _, _)
parse_query_from(query, i, query_map) ==
    IF i > Len(query) THEN query_map
    ELSE LET key == query[i][1]
             value == url_decode(query[i][2])
         IN parse_query_from(query, i + 1,
                IF key \notin DOMAIN query_map
                THEN query_map @@ (key :> value)
                ELSE [query_map EXCEPT ![key] = @ \o "&&" \o value])

parse_query(query) == parse_query_from(query, 1, <<>>)

\* a call parse_query(query_str) and its return
ParseQuery ==
    /\ ~parsed.done
    /\ parsed' = [done |-> TRUE, map |-> parse_query(query_str)]
    /\ UNCHANGED <<cors_enabled, routes, req, x, query_str>>
    /\ UNCHANGED <<message_handlers, owner_pc, exit_loop, stop_pc, receiver, inbox, batch,
                   wake, sent, delivered, deleted, relay_fault>>

(***************************************************************************)
(* Route table                                                             *)
(***************************************************************************)
\* routes.push_back(rpath)
push_back(rs, rpath) == Append(rs, rpath)

Register(http_method, path_parts, async) ==
    /\ req = NoReq
    /\ Len(routes) < MaxRoutes
    /\ routes' = push_back(routes, [http_method |-> http_method, path_parts |-> path_parts,
                                    handler |-> Len(routes) + 1, async |-> async])
    /\ UNCHANGED <<cors_enabled, req, x, relay_vars, query_vars>>

get == \E p \in RoutePaths, async \in BOOLEAN : Register("GET", p, async)

post == \E p \in RoutePaths, async \in BOOLEAN : Register("POST", p, async)

\* the inner loop of catch_all_handler and the two tests before it
route_matches(rpath, http_method, path_parts) ==
    /\ Len(rpath.path_parts) = Len(path_parts)
    /\ rpath.http_method = http_method
    /\ \A i \in 1..Len(rpath.path_parts) :
          rpath.path_parts[i] = path_parts[i] \/ rpath.path_parts[i].colon

\* a route loop in which a later match replaces an earlier one
RECURSIVE find_route_last(_, _, _, _)
find_route_last(rs, i, http_method, path_parts) ==
    IF i > Len(rs) THEN 0
    ELSE LET later == find_route_last(rs, i + 1, http_method, path_parts)
         IN IF later # 0 THEN later
            ELSE IF route_matches(rs[i], http_method, path_parts) THEN i ELSE 0

\* the route loop of catch_all_handler: the index of the first route found, 0 if none
RECURSIVE find_route(_, _, _, _)
find_route(rs, i, http_method, path_parts) ==
    IF i > Len(rs) THEN 0
    ELSE IF route_matches(rs[i], http_method, path_parts) THEN i
    ELSE find_route(rs, i + 1, http_method, path_parts)

\* an insertion that replaces the value of a key that is present
emplace_overwrite(m, k, v) == [kk \in DOMAIN m \cup {k} |-> IF kk = k THEN v ELSE m[kk]]

\* std::map::emplace
emplace(m, k, v) == IF k \in DOMAIN m THEN m ELSE m @@ (k :> v)

\* a parameter loop that reads the request segment before the placeholder's
RECURSIVE extract_path_params_shifted(_, _, _, _)
extract_path_params_shifted(rparts, path_parts, i, query_map) ==
    IF i > Len(rparts) THEN query_map
    ELSE extract_path_params_shifted(rparts, path_parts, i + 1,
            IF rparts[i].colon
            THEN emplace(query_map, rparts[i].text, SegStr(path_parts[IF i > 1 THEN i - 1 ELSE i]))
            ELSE query_map)

\* the path parameter loop of catch_all_handler
RECURSIVE extract_path_params(_, _, _, _)
extract_path_params(rparts, path_parts, i, query_map) ==
    IF i > Len(rparts) THEN query_map
    ELSE extract_path_params(rparts, path_parts, i + 1,
            IF rparts[i].colon
            THEN emplace(query_map, rparts[i].text, SegStr(path_parts[i]))
            ELSE query_map)

\* a lookup that prefers the query parameter to the header
auth_key_query_first(r, query_map) ==
    IF AUTH_HEADER \in DOMAIN query_map THEN query_map[AUTH_HEADER]
    ELSE IF r.auth_header.present THEN r.auth_header.value
    ELSE ""

\* the credential: the header, else the query parameter of the same name
auth_key_from_header(r, query_map) ==
    IF r.auth_header.present THEN r.auth_header.value
    ELSE IF AUTH_HEADER \in DOMAIN query_map THEN query_map[AUTH_HEADER]
    ELSE ""

(***************************************************************************)
(* The exchange of one request                                             *)
(***************************************************************************)
NoRes == [status_code |-> 0, body |-> "", final |-> TRUE, content_type_header |-> ""]

NewExchange ==
    [ gate     |-> <<>>,      \* what auth_handler answers for each route and this credential
      auth     |-> <<>>,      \* calls of auth_handler: [rpath, auth_key, ok]
      calls    |-> <<>>,      \* calls of a route's handler: [rpath, params]
      ctx      |-> "none",    \* the http_req/http_res pair: none, live, freed
      res      |-> NoRes,     \* the fields of the http_res
      gen      |-> "none",    \* the h2o_custom_generator_t: none, live, freed
      turns    |-> 0,         \* calls of the generator's resumption handler
      pending  |-> FALSE,     \* the handler gave the pair to a worker thread
      releases |-> 0,         \* times the pair was deleted
      ub       |-> FALSE,     \* a freed object was read or deleted: undefined from here on
      status   |-> 0,         \* req->res.status
      headers  |-> <<>>,      \* req->res.headers
      h2o_gen  |-> "none",    \* req->_generator: none, plain, custom
      started  |-> 0,         \* calls of h2o_start_response
      disposed |-> 0,         \* calls of h2o_dispose_request
      stops    |-> 0,         \* calls of response_stop
      dispatcher_sends |-> 0, \* calls of send_response made by catch_all_handler
      wire     |-> <<>> ]     \* calls of h2o_send: [by, state, body, status, headers]

h2o_add_header(e, name, value) == [e EXCEPT !.headers = Append(@, <<name, value>>)]

h2o_start_response(e, generator) ==
    [e EXCEPT !.started = @ + 1, !.h2o_gen = generator]

h2o_send(e, by, body, state) ==
    [e EXCEPT !.wire = Append(@, [by |-> by, state |-> state, body |-> body,
                                  status |-> e.status, headers |-> e.headers]),
              !.h2o_gen = IF state = "FINAL" THEN "none" ELSE @]

h2o_dispose_request(e) == [e EXCEPT !.disposed = @ + 1, !.h2o_gen = "none"]

\* delete request; delete response;
delete_pair(e) ==
    [e EXCEPT !.ctx = "freed", !.releases = @ + 1, !.ub = @ \/ e.ctx = "freed"]

\* request->_req, response->body, ... read through a pointer to a deleted object
Undefined(e) == [e EXCEPT !.ub = TRUE]

send_response(e) ==
    IF e.ctx # "live" THEN Undefined(e)
    ELSE LET e0 == [e EXCEPT !.status = e.res.status_code]
             e1 == h2o_add_header(e0, "content-type", JSON_CONTENT_TYPE)
             e2 == h2o_start_response(e1, "plain")
             e3 == h2o_send(e2, "send_response", e.res.body, "FINAL")
         IN delete_pair(e3)

\* a stream_response that does not send the first, empty chunk
stream_response_silent(e) ==
    IF e.ctx # "live" THEN Undefined(e)
    ELSE LET e0 == [e EXCEPT !.gen = "live", !.status = e.res.status_code]
             e1 == h2o_add_header(e0, "content-type", e.res.content_type_header)
         IN h2o_start_response(e1, "custom")

stream_response(e) ==
    IF e.ctx # "live" THEN Undefined(e)
    ELSE LET e0 == [e EXCEPT !.gen = "live", !.status = e.res.status_code]
             e1 == h2o_add_header(e0, "content-type", e.res.content_type_header)
             e2 == h2o_start_response(e1, "custom")
         IN h2o_send(e2, "stream_response", "", "IN_PROGRESS")

\* the resumption handler of the generator, for what it does in this turn
resume_handler(e, hb) ==
    [e EXCEPT !.turns = @ + 1,
              !.res.body = CASE hb.op = "append" -> @ \o "c"
                             [] hb.op = "replace" -> "r"
                             [] OTHER -> @,
              !.res.final = hb.final]

\* a response_proceed that sends the last chunk and releases nothing
response_proceed_no_release(e, hb) ==
    IF e.ctx # "live" \/ e.gen # "live" THEN Undefined(e)
    ELSE LET e0 == resume_handler(e, hb)
             state == IF e0.res.final THEN "FINAL" ELSE "IN_PROGRESS"
         IN h2o_send(e0, "response_proceed", e0.res.body, state)

\* a response_proceed that sends the body as it was before the handler ran
response_proceed_stale(e, hb) ==
    IF e.ctx # "live" \/ e.gen # "live" THEN Undefined(e)
    ELSE LET e0 == resume_handler(e, hb)
             state == IF e0.res.final THEN "FINAL" ELSE "IN_PROGRESS"
             e1 == h2o_send(e0, "response_proceed", e.res.body, state)
         IN IF e0.res.final
            THEN [delete_pair(h2o_dispose_request(e1)) EXCEPT !.gen = "freed"]
            ELSE e1

response_proceed(e, hb) ==
    IF e.ctx # "live" \/ e.gen # "live" THEN Undefined(e)
    ELSE LET e0 == resume_handler(e, hb)
             state == IF e0.res.final THEN "FINAL" ELSE "IN_PROGRESS"
             e1 == h2o_send(e0, "response_proceed", e0.res.body, state)
         IN IF e0.res.final
            THEN [delete_pair(h2o_dispose_request(e1)) EXCEPT !.gen = "freed"]
            ELSE e1

\* a response_stop that keeps the http_req/http_res pair
response_stop_leaky(e) ==
    IF e.gen # "live" THEN Undefined(e)
    ELSE [h2o_dispose_request(e) EXCEPT !.gen = "freed", !.stops = @ + 1]

response_stop(e) ==
    IF e.gen # "live" THEN Undefined(e)
    ELSE [delete_pair(h2o_dispose_request(e)) EXCEPT !.gen = "freed", !.stops = @ + 1]

\* a 401 that leaves the response open
send_401_in_progress(e) ==
    LET e0 == [e EXCEPT !.status = 401]
        e1 == h2o_add_header(e0, "content-type", JSON_CONTENT_TYPE)
        e2 == h2o_start_response(e1, "plain")
    IN h2o_send(e2, "send_401_unauthorized", FORBIDDEN_BODY, "IN_PROGRESS")

send_401_unauthorized(e) ==
    LET e0 == [e EXCEPT !.status = 401]
        e1 == h2o_add_header(e0, "content-type", JSON_CONTENT_TYPE)
        e2 == h2o_start_response(e1, "plain")
    IN h2o_send(e2, "send_401_unauthorized", FORBIDDEN_BODY, "FINAL")

\* a 404 without the content type
send_404_plain(e) ==
    LET e0 == [e EXCEPT !.status = 404]
        e1 == h2o_start_response(e0, "plain")
    IN h2o_send(e1, "catch_all_handler", NOT_FOUND_BODY, "FINAL")

send_404(e) ==
    LET e0 == [e EXCEPT !.status = 404]
        e1 == h2o_add_header(e0, "content-type", JSON_CONTENT_TYPE)
        e2 == h2o_start_response(e1, "plain")
    IN h2o_send(e2, "catch_all_handler", NOT_FOUND_BODY, "FINAL")

\* (rpath.handler)(*request, *response), for what the handler does
call_handler(e, idx, params, beh) ==
    LET e0 == [e EXCEPT !.calls = Append(@, [rpath |-> idx, params |-> params])]
        filled == [e0 EXCEPT !.res.status_code = beh.status, !.res.body = beh.body]
    IN CASE beh.act = "fill"   -> filled
         [] beh.act = "send"   -> send_response(filled)
         [] beh.act = "stream" -> stream_response([filled EXCEPT !.res.final = FALSE])
         [] beh.act = "defer"  -> [e0 EXCEPT !.pending = TRUE]

\* a dispatcher that adds the header whether or not CORS is enabled
cors_header_unconditional(e) == h2o_add_header(e, "access-control-allow-origin", "*")

\* the CORS part of catch_all_handler: the header every response gets
cors_header(e) ==
    IF cors_enabled THEN h2o_add_header(e, "access-control-allow-origin", "*") ELSE e

is_preflight(r) == cors_enabled /\ r.method = "OPTIONS" /\ r.acl_header.present

\* a preflight answer that allows every header instead of echoing the request's
send_preflight_any(e, r) ==
    LET e0 == [e EXCEPT !.status = 200]
        e1 == h2o_add_header(e0, "access-control-allow-methods",
                             "POST, GET, DELETE, PUT, PATCH, OPTIONS")
        e2 == h2o_add_header(e1, "access-control-allow-headers", "*")
        e3 == h2o_add_header(e2, "access-control-max-age", "86400")
        e4 == h2o_start_response(e3, "plain")
    IN h2o_send(e4, "preflight", "", "FINAL")

send_preflight(e, r) ==
    LET e0 == [e EXCEPT !.status = 200]
        e1 == h2o_add_header(e0, "access-control-allow-methods",
                             "POST, GET, DELETE, PUT, PATCH, OPTIONS")
        e2 == h2o_add_header(e1, "access-control-allow-headers", r.acl_header.value)
        e3 == h2o_add_header(e2, "access-control-max-age", "86400")
        e4 == h2o_start_response(e3, "plain")
    IN h2o_send(e4, "preflight", "", "FINAL")

\* a dispatcher that sends the response after the handler of every route
reply_after_handler_always(e, rpath) ==
    send_response([e EXCEPT !.dispatcher_sends = @ + 1])

\* a dispatcher that takes the flag the wrong way round
reply_after_handler_inverted(e, rpath) ==
    IF rpath.async THEN send_response([e EXCEPT !.dispatcher_sends = @ + 1]) ELSE e

\* what catch_all_handler does when the handler has returned
reply_after_handler(e, rpath) ==
    IF ~rpath.async THEN send_response([e EXCEPT !.dispatcher_sends = @ + 1]) ELSE e

\* a dispatcher that goes on to the next matching route when the auth gate
\* rejects one, and answers 401 only when it rejects them all
catch_all_handler_try_next(r, gate, beh) ==
    LET query_map == parse_query(r.query)
        auth_key == auth_key_from_header(r, query_map)
        c == cors_header([NewExchange EXCEPT !.gate = gate])
        matching == {i \in 1..Len(routes) : route_matches(routes[i], r.method, r.path_parts)}
        accepted == {i \in matching : gate[i]}
        asked == IF accepted = {} THEN matching
                 ELSE {i \in matching : \A a \in accepted : i <= a}
        e0 == [c EXCEPT !.auth = [k \in 1..Cardinality(asked) |->
                   LET i == CHOOSE m \in asked : Cardinality({n \in asked : n < m}) = k - 1
                   IN [rpath |-> i, auth_key |-> auth_key, ok |-> gate[i]]]]
    IN IF is_preflight(r) THEN send_preflight(c, r)
       ELSE IF matching = {} THEN send_404(c)
       ELSE IF accepted = {} THEN send_401_unauthorized(e0)
       ELSE LET idx == CHOOSE a \in accepted : \A b \in accepted : a <= b
                rpath == routes[idx]
                params == extract_path_params(rpath.path_parts, r.path_parts, 1, query_map)
                e1 == [e0 EXCEPT !.ctx = "live",
                                 !.res = [NoRes EXCEPT !.content_type_header = JSON_CONTENT_TYPE]]
            IN reply_after_handler(call_handler(e1, idx, params, beh), rpath)

\* the dispatcher
catch_all_handler(r, gate, beh) ==
    LET query_map == parse_query(r.query)
        auth_key == auth_key_from_header(r, query_map)
        c == cors_header([NewExchange EXCEPT !.gate = gate])
        idx == find_route(routes, 1, r.method, r.path_parts)
    IN IF is_preflight(r) THEN send_preflight(c, r)
       ELSE IF idx = 0 THEN send_404(c)
       ELSE LET rpath == routes[idx]
                e0 == [c EXCEPT
                          !.auth = Append(@, [rpath |-> idx, auth_key |-> auth_key, ok |-> gate[idx]])]
            IN IF ~gate[idx] THEN send_401_unauthorized(e0)
               ELSE LET params == extract_path_params(rpath.path_parts, r.path_parts, 1, query_map)
                        e1 == [e0 EXCEPT !.ctx = "live",
                                         !.res = [NoRes EXCEPT !.content_type_header = JSON_CONTENT_TYPE]]
                        e2 == call_handler(e1, idx, params, beh)
                    IN reply_after_handler(e2, rpath)

\* The transport delivers the request that is followed.  The answers of the auth
\* gate and what the handler does are drawn only where the dispatcher gets that far.
Dispatch(R, B) ==
    /\ req = NoReq
    /\ \E r \in R :
          LET idx == IF is_preflight(r) THEN 0 ELSE find_route(routes, 1, r.method, r.path_parts)
              Gates == IF idx = 0 THEN {[i \in 1..Len(routes) |-> TRUE]}
                       ELSE [1..Len(routes) -> BOOLEAN]
          IN \E gate \in Gates :
                LET called == idx # 0 /\ gate[idx]
                IN \E beh \in (IF called THEN B ELSE {CHOOSE b \in B : TRUE}) :
                      /\ req' = r
                      /\ x' = catch_all_handler(r, gate, beh)
    /\ UNCHANGED <<cors_enabled, routes, relay_vars, query_vars>>

DeliverRequest == Dispatch(Requests, RouteBehaviours)

DeliverStreamRequest == Dispatch(StreamRequests, StreamBehaviours)

(***************************************************************************)
(* The transport's callbacks of a streaming exchange, and the callbacks of *)
(* the messages by which a worker thread hands the pair back               *)
(***************************************************************************)
\* write-ready: h2o calls the proceed callback of the registered generator
WriteReady ==
    /\ x.h2o_gen = "custom"
    /\ ~x.ub
    /\ x.turns < MaxTurns
    /\ \E hb \in TurnBehaviours : x' = response_proceed(x, hb)
    /\ UNCHANGED <<cors_enabled, routes, req, relay_vars, query_vars>>

\* connection-closed: h2o calls the stop callback of the registered generator
ConnectionClosed ==
    /\ x.h2o_gen = "custom"
    /\ ~x.ub
    /\ x' = response_stop(x)
    /\ UNCHANGED <<cors_enabled, routes, req, relay_vars, query_vars>>

\* the worker's message is drained and its callback sends the response
callback_send_response ==
    /\ x.pending
    /\ ~x.ub
    /\ \E status \in {200}, body \in {"ok"} :
          x' = send_response([x EXCEPT !.pending = FALSE,
                                       !.res.status_code = IF x.ctx = "live" THEN status ELSE @,
                                       !.res.body = IF x.ctx = "live" THEN body ELSE @])
    /\ UNCHANGED <<cors_enabled, routes, req, relay_vars, query_vars>>

\* the worker's message is drained and its callback starts a streamed response
callback_stream_response ==
    /\ x.pending
    /\ ~x.ub
    /\ x' = stream_response([x EXCEPT !.pending = FALSE,
                                      !.res.status_code = IF x.ctx = "live" THEN 200 ELSE @,
                                      !.res.final = IF x.ctx = "live" THEN FALSE ELSE @])
    /\ UNCHANGED <<cors_enabled, routes, req, relay_vars, query_vars>>

(***************************************************************************)
(* The cross-thread message relay                                          *)
(*                                                                         *)
(* A message is [type, data]; data names the sending thread and the number *)
(* of the message among those the thread sent.  The owning thread runs     *)
(* run() and then ~HttpServer(); worker threads call send_message and one  *)
(* more thread calls stop().                                               *)
(***************************************************************************)
Workers == {"w1", "w2"}
MessageTypes == {"T", "U"}
STOP_SERVER_MESSAGE == "STOP_SERVER"

\* h2o_multithread_send_message: under the queue's mutex, link the message at
\* the end of the receiver's list
h2o_multithread_send_message(list, message) == Append(list, message)

\* one turn of on_message's loop that takes the message at the end of the list
on_message_last(list, handlers, thread, log) ==
    LET message == list[Len(list)]
    IN [ delivered |-> IF message.type \in handlers
                       THEN Append(log, [type |-> message.type, data |-> message.data,
                                         thread |-> thread])
                       ELSE log,
         list |-> SubSeq(list, 1, Len(list) - 1),
         message |-> message ]

\* a loop that ends at a message whose type has no callback and leaves the
\* messages after it undelivered
on_message_drop_rest(list, handlers, thread, log) ==
    LET message == Head(list)
    IN [ delivered |-> IF message.type \in handlers
                       THEN Append(log, [type |-> message.type, data |-> message.data,
                                         thread |-> thread])
                       ELSE log,
         list |-> IF message.type \in handlers THEN Tail(list) ELSE <<>>,
         message |-> message ]

\* one turn of on_message's loop: the callback of the first message, if its type
\* has one, then the message is unlinked and deleted
on_message(list, handlers, thread, log) ==
    LET message == Head(list)
    IN [ delivered |-> IF message.type \in handlers
                       THEN Append(log, [type |-> message.type, data |-> message.data,
                                         thread |-> thread])
                       ELSE log,
         list |-> Tail(list),
         message |-> message ]

\* on(message, handler), before run()
on ==
    /\ owner_pc = "init"
    /\ \E type \in MessageTypes : message_handlers' = message_handlers \cup {type}
    /\ UNCHANGED <<dispatch_vars, query_vars, owner_pc, exit_loop, stop_pc, receiver, inbox, batch,
                   wake, sent, delivered, deleted, relay_fault>>

\* run(), up to the loop: the queue and the receiver exist, the stop message has a callback
run ==
    /\ owner_pc = "init"
    /\ owner_pc' = "loop"
    /\ receiver' = "registered"
    /\ message_handlers' = message_handlers \cup {STOP_SERVER_MESSAGE}
    /\ UNCHANGED <<dispatch_vars, query_vars, exit_loop, stop_pc, inbox, batch, wake, sent, delivered,
                   deleted, relay_fault>>

\* h2o_evloop_run, woken by the queue: the receiver's messages are moved, under
\* the mutex, to the list on_message is called with
evloop_wake ==
    /\ owner_pc = "loop"
    /\ wake
    /\ owner_pc' = "on_message"
    /\ batch' = inbox
    /\ inbox' = <<>>
    /\ wake' = FALSE
    /\ UNCHANGED <<dispatch_vars, query_vars, message_handlers, exit_loop, stop_pc, receiver, sent,
                   delivered, deleted, relay_fault>>

\* h2o_evloop_run, woken by a socket
evloop_io ==
    /\ owner_pc = "loop"
    /\ owner_pc' = "loop_check"
    /\ UNCHANGED <<dispatch_vars, query_vars, message_handlers, exit_loop, stop_pc, receiver, inbox,
                   batch, wake, sent, delivered, deleted, relay_fault>>

\* on_message called by the event loop: one turn of its loop, or its end
drain_batch ==
    /\ owner_pc = "on_message"
    /\ IF batch = <<>>
       THEN /\ owner_pc' = "loop_check"
            /\ UNCHANGED <<batch, delivered, deleted>>
       ELSE LET r == on_message(batch, message_handlers, "owner", delivered)
            IN /\ batch' = r.list
               /\ delivered' = r.delivered
               /\ deleted' = Append(deleted, r.message)
               /\ UNCHANGED owner_pc
    /\ UNCHANGED <<dispatch_vars, query_vars, message_handlers, exit_loop, stop_pc, receiver, inbox,
                   wake, sent, relay_fault>>

\* while(!exit_loop)
loop_check ==
    /\ owner_pc = "loop_check"
    /\ owner_pc' = IF exit_loop THEN "returned" ELSE "loop"
    /\ UNCHANGED <<dispatch_vars, query_vars, message_handlers, exit_loop, stop_pc, receiver, inbox,
                   batch, wake, sent, delivered, deleted, relay_fault>>

\* ~HttpServer(): on_message(message_receiver, &message_receiver->_messages), one
\* turn of its loop on the receiver's own list, or its end
destructor_drain ==
    /\ owner_pc \in {"returned", "destructor_drain"}
    /\ IF inbox = <<>>
       THEN /\ owner_pc' = "drained"
            /\ UNCHANGED <<inbox, delivered, deleted>>
       ELSE LET r == on_message(inbox, message_handlers, "owner", delivered)
            IN /\ inbox' = r.list
               /\ delivered' = r.delivered
               /\ deleted' = Append(deleted, r.message)
               /\ owner_pc' = "destructor_drain"
    /\ UNCHANGED <<dispatch_vars, query_vars, message_handlers, exit_loop, stop_pc, receiver, batch,
                   wake, sent, relay_fault>>

\* ~HttpServer(): the receiver is unregistered, the queue destroyed, both freed
destructor_release ==
    /\ owner_pc = "drained"
    /\ owner_pc' = "destroyed"
    /\ receiver' = "freed"
    /\ UNCHANGED <<dispatch_vars, query_vars, message_handlers, exit_loop, stop_pc, inbox, batch,
                   wake, sent, delivered, deleted, relay_fault>>

\* send_message(type, data) by a thread, with what it does to the relay: after
\* the receiver is freed it writes to freed memory; while the destructor walks
\* the receiver's list without the mutex the append races with the unlink and
\* the message is linked or lost
enqueue(type, data) ==
    \/ /\ receiver = "registered"
       /\ owner_pc # "destructor_drain"
       /\ inbox' = h2o_multithread_send_message(inbox, [type |-> type, data |-> data])
       /\ wake' = (wake \/ inbox = <<>>)
       /\ UNCHANGED relay_fault
    \/ /\ receiver = "registered"
       /\ owner_pc = "destructor_drain"
       /\ \/ inbox' = h2o_multithread_send_message(inbox, [type |-> type, data |-> data])
          \/ inbox' = inbox
       /\ wake' = (wake \/ inbox = <<>>)
       /\ relay_fault' = "race"
    \/ /\ receiver = "freed"
       /\ relay_fault' = "use_after_free"
       /\ UNCHANGED <<inbox, wake>>

RECURSIVE SumOver(_, _)
SumOver(f, S) == IF S = {} THEN 0 ELSE LET w == CHOOSE v \in S : TRUE IN f[w] + SumOver(f, S \ {w})

SentInAll == SumOver(sent, Workers)

send_message ==
    /\ receiver # "none"
    /\ \E w \in Workers, type \in MessageTypes :
          /\ SentInAll < MaxSend
          /\ sent' = [sent EXCEPT ![w] = @ + 1]
          /\ enqueue(type, <<w, sent[w] + 1>>)
    /\ UNCHANGED <<dispatch_vars, query_vars, message_handlers, owner_pc, exit_loop, stop_pc, receiver,
                   batch, delivered, deleted>>

\* stop(), first half: the listener is closed and exit_loop set
stop_flag ==
    /\ stop_pc = "idle"
    /\ receiver # "none"
    /\ stop_pc' = "flag_set"
    /\ exit_loop' = TRUE
    /\ UNCHANGED <<dispatch_vars, query_vars, message_handlers, owner_pc, receiver, inbox, batch, wake,
                   sent, delivered, deleted, relay_fault>>

\* a stop() that ends without the message
stop_message_silent ==
    /\ stop_pc = "flag_set"
    /\ stop_pc' = "done"
    /\ UNCHANGED <<dispatch_vars, query_vars, message_handlers, owner_pc, exit_loop, receiver,
                   inbox, batch, wake, sent, delivered, deleted, relay_fault>>

\* stop(), second half: send_message(STOP_SERVER_MESSAGE, nullptr)
stop_message ==
    /\ stop_pc = "flag_set"
    /\ stop_pc' = "done"
    /\ enqueue(STOP_SERVER_MESSAGE, <<"stop", 1>>)
    /\ UNCHANGED <<dispatch_vars, query_vars, message_handlers, owner_pc, exit_loop, receiver, batch,
                   sent, delivered, deleted>>

InitRelay ==
    /\ message_handlers = {}
    /\ owner_pc = "init"
    /\ exit_loop = FALSE
    /\ stop_pc = "idle"
    /\ receiver = "none"
    /\ inbox = <<>>
    /\ batch = <<>>
    /\ wake = FALSE
    /\ sent = [w \in Workers |-> 0]
    /\ delivered = <<>>
    /\ deleted = <<>>
    /\ relay_fault = "none"

InitDispatch ==
    /\ cors_enabled \in BOOLEAN
    /\ routes = <<>>
    /\ req = NoReq
    /\ x = NewExchange

\* parse_query has not been called on its own
InitQuery ==
    /\ query_str = <<>>
    /\ parsed = [done |-> FALSE, map |-> <<>>]

Init == InitDispatch /\ InitRelay /\ InitQuery

Next == get \/ post \/ DeliverRequest

Spec == Init /\ [][Next]_vars

InitStream ==
    /\ cors_enabled \in BOOLEAN
    /\ routes = StreamRoutes
    /\ req = NoReq
    /\ x = NewExchange
    /\ InitRelay
    /\ InitQuery

NextStream ==
    \/ DeliverStreamRequest
    \/ WriteReady
    \/ ConnectionClosed
    \/ callback_send_response
    \/ callback_stream_response

SpecStream == InitStream /\ [][NextStream]_vars

InitRelaySpec ==
    /\ cors_enabled = FALSE
    /\ routes = <<>>
    /\ req = NoReq
    /\ x = NewExchange
    /\ InitRelay
    /\ InitQuery

NextRelay ==
    \/ on
    \/ run
    \/ evloop_wake
    \/ evloop_io
    \/ drain_batch
    \/ loop_check
    \/ destructor_drain
    \/ destructor_release
    \/ send_message
    \/ stop_flag
    \/ stop_message

SpecRelay == InitRelaySpec /\ [][NextRelay]_vars

\* The relay with threads that go on: the owning thread takes its next step in
\* run() when it has one (a woken event loop drains the queue, a callback
\* returns, the loop condition is tested) and a thread that has begun stop()
\* ends it.  No socket has to become ready and no worker has to send.
SpecRelayFair ==
    /\ InitRelaySpec
    /\ [][NextRelay]_vars
    /\ WF_vars(evloop_wake)
    /\ WF_vars(drain_batch)
    /\ WF_vars(loop_check)
    /\ WF_vars(stop_message)

InitQuerySpec ==
    /\ cors_enabled = FALSE
    /\ routes = <<>>
    /\ req = NoReq
    /\ x = NewExchange
    /\ InitRelay
    /\ query_str \in QueryStrings
    /\ parsed = [done |-> FALSE, map |-> <<>>]

NextQuery == ParseQuery

SpecQuery == InitQuerySpec /\ [][NextQuery]_vars

(***************************************************************************)
(* Properties of parse_query (specification SpecQuery)                     *)
(***************************************************************************)
\* the decoded values of a key in a query string, in order of occurrence
DecodedValues(query, key) ==
    LET occ == SelectSeq(query, LAMBDA pair : pair[1] = key)
    IN [k \in DOMAIN occ |-> url_decode(occ[k][2])]

\* the values joined by "&&"
RECURSIVE JoinValues(_)
JoinValues(values) ==
    IF Len(values) = 1 THEN values[1]
    ELSE values[1] \o "&&" \o JoinValues(Tail(values))

\* C13: parse_query returns a map whose keys are the keys of the query string,
\* each once, and the value of a key is its decoded values, in order of
\* occurrence, joined by "&&" (the value itself when the key occurs once): no
\* occurrence replaces or drops an earlier one.
C13_DuplicatesJoined ==
    parsed.done =>
        /\ DOMAIN parsed.map = {query_str[k][1] : k \in DOMAIN query_str}
        /\ \A key \in DOMAIN parsed.map :
              parsed.map[key] = JoinValues(DecodedValues(query_str, key))

\* a=1&a=2 gives a -> 1&&2
C13_Witness ==
    /\ parsed.done
    /\ query_str = << <<"a", "1">>, <<"a", "2">> >>
    /\ DOMAIN parsed.map = {"a"}
    /\ parsed.map["a"] = "1&&2"

(***************************************************************************)
(* Properties of the dispatcher (specification Spec)                       *)
(***************************************************************************)
Served == req # NoReq

\* the registered routes the request matches, by index
MatchingRoutes ==
    IF Served
    THEN {i \in 1..Len(routes) : route_matches(routes[i], req.method, req.path_parts)}
    ELSE {}

\* the route indices given to the auth gate and to handlers
AuthRoutes == {x.auth[k].rpath : k \in DOMAIN x.auth}
CalledRoutes == {x.calls[k].rpath : k \in DOMAIN x.calls}

\* the request was resolved to a route and the auth gate accepted it
Passed == Served /\ Len(x.auth) = 1 /\ x.auth[1].ok

QueryKeys == IF Served THEN {req.query[k][1] : k \in DOMAIN req.query} ELSE {}

\* the response is one final write with this status and body, with the JSON content type
OneFinalWrite(status, body) ==
    /\ Len(x.wire) = 1
    /\ x.wire[1].state = "FINAL"
    /\ x.wire[1].status = status
    /\ x.wire[1].body = body
    /\ \E k \in DOMAIN x.wire[1].headers :
          x.wire[1].headers[k] = <<"content-type", "application/json; charset=utf-8">>
    /\ x.started = 1

\* C1: when two registered routes with the request's method and segment count
\* both match the request path, the request is resolved to the one registered
\* first: the auth gate is asked about that route only and only its handler can
\* be invoked; the handler of a route registered after a matching route never is.
C1_FirstRegisteredWins ==
    \A r1 \in MatchingRoutes, r2 \in MatchingRoutes :
        (r1 < r2 /\ ~is_preflight(req)) =>
            /\ r2 \notin AuthRoutes
            /\ r2 \notin CalledRoutes
            /\ Len(x.auth) = 1
            /\ \A m \in MatchingRoutes : x.auth[1].rpath <= m
            /\ CalledRoutes \subseteq AuthRoutes

C1_Witness ==
    \E r1 \in MatchingRoutes, r2 \in MatchingRoutes :
        /\ r1 < r2
        /\ routes[r1].path_parts # routes[r2].path_parts
        /\ Len(x.calls) = 1
        /\ x.calls[1].rpath = r1

\* C2, as claimed: a request that matches a route and passes the auth gate has
\* the route's handler invoked exactly once, and every ':name' segment of the
\* route whose name is no query parameter is bound to the request segment at its
\* position.
C2_EveryPlaceholderBound ==
    Passed =>
        /\ Len(x.calls) = 1
        /\ x.calls[1].rpath = x.auth[1].rpath
        /\ LET rparts == routes[x.auth[1].rpath].path_parts
               params == x.calls[1].params
           IN \A k \in 1..Len(rparts) :
                 (rparts[k].colon /\ rparts[k].text \notin QueryKeys) =>
                     /\ rparts[k].text \in DOMAIN params
                     /\ params[rparts[k].text] = SegStr(req.path_parts[k])

\* C2, amended: the same, for every ':name' segment that is the first segment of
\* that name in the route; a later segment of the same name is not bound.
C2_FirstPlaceholderBound ==
    Passed =>
        /\ Len(x.calls) = 1
        /\ x.calls[1].rpath = x.auth[1].rpath
        /\ LET rparts == routes[x.auth[1].rpath].path_parts
               params == x.calls[1].params
           IN \A k \in 1..Len(rparts) :
                 (/\ rparts[k].colon
                  /\ rparts[k].text \notin QueryKeys
                  /\ \A j \in 1..(k - 1) : rparts[j] # rparts[k]) =>
                     /\ rparts[k].text \in DOMAIN params
                     /\ params[rparts[k].text] = SegStr(req.path_parts[k])

\* GET /items/:id against /items/42 without a query: the handler ran once with id = 42
C2_Witness ==
    /\ Passed
    /\ req.method = "GET"
    /\ req.query = <<>>
    /\ routes[x.auth[1].rpath].path_parts = <<Lit("items"), Par("id")>>
    /\ req.path_parts = <<Lit("items"), Lit("42")>>
    /\ Len(x.calls) = 1
    /\ x.calls[1].params = [k \in {"id"} |-> "42"]

\* C3: when the query has a key that is the name of a ':name' segment of the
\* matched route, the handler gets the query string's value for that key.
C3_QueryValueKept ==
    Passed =>
        LET rparts == routes[x.auth[1].rpath].path_parts
        IN \A k \in 1..Len(rparts), c \in DOMAIN x.calls :
              (rparts[k].colon /\ rparts[k].text \in QueryKeys) =>
                  /\ rparts[k].text \in DOMAIN x.calls[c].params
                  /\ x.calls[c].params[rparts[k].text] = parse_query(req.query)[rparts[k].text]

\* ?id=7 on a route with :id, whose segment is 42 or items: the handler got id = 7
C3_Witness ==
    /\ Passed
    /\ req.query = << <<"id", "7">> >>
    /\ \E k \in DOMAIN routes[x.auth[1].rpath].path_parts :
          routes[x.auth[1].rpath].path_parts[k] = Par("id")
    /\ Len(x.calls) = 1
    /\ x.calls[1].params["id"] = "7"

C5_Unauthorized ==
    (Served /\ Len(x.auth) > 0 /\ ~x.auth[1].ok) =>
        /\ OneFinalWrite(401, "{\"message\": \"Forbidden - a valid '" \o AUTH_HEADER
                               \o "' header must be sent.\"}")
        /\ x.calls = <<>>
        /\ x.ctx = "none"
        /\ x.releases = 0

\* rejected with no credential at all
C5_Witness ==
    /\ Served
    /\ Len(x.auth) = 1
    /\ ~x.auth[1].ok
    /\ x.auth[1].auth_key = ""
    /\ ~req.auth_header.present
    /\ Len(x.wire) = 1
    /\ x.wire[1].status = 401

\* the headers of the k-th write and whether one of them is this name and value
HasHeader(headers, name, value) ==
    \E k \in DOMAIN headers : headers[k] = <<name, value>>

\* C11: with CORS enabled, an OPTIONS request with an Access-Control-Request-Headers
\* header is answered with one final write of status 200 and an empty body whose
\* headers give access-control-allow-headers as the value of the request's
\* header, access-control-allow-methods as POST, GET, DELETE, PUT, PATCH, OPTIONS
\* and access-control-max-age as 86400; no route's auth gate call and no handler
\* call is made and no http_req/http_res pair is created, whatever routes are
\* registered and whatever credential the request carries.
C11_PreflightAnswered ==
    (Served /\ cors_enabled /\ req.method = "OPTIONS" /\ req.acl_header.present) =>
        /\ Len(x.wire) = 1
        /\ x.started = 1
        /\ x.wire[1].state = "FINAL"
        /\ x.wire[1].status = 200
        /\ x.wire[1].body = ""
        /\ HasHeader(x.wire[1].headers, "access-control-allow-headers", req.acl_header.value)
        /\ \A k \in DOMAIN x.wire[1].headers :
              x.wire[1].headers[k][1] = "access-control-allow-headers" =>
                  x.wire[1].headers[k][2] = req.acl_header.value
        /\ HasHeader(x.wire[1].headers, "access-control-allow-methods",
                     "POST, GET, DELETE, PUT, PATCH, OPTIONS")
        /\ HasHeader(x.wire[1].headers, "access-control-max-age", "86400")
        /\ x.auth = <<>>
        /\ x.calls = <<>>
        /\ x.ctx = "none"

\* a preflight for two headers, with a credential, against a server with two routes
C11_Witness ==
    /\ Served
    /\ cors_enabled
    /\ req.method = "OPTIONS"
    /\ req.acl_header = Header("X-Foo, X-Bar")
    /\ req.auth_header = Header("k2")
    /\ Len(routes) = 2
    /\ Len(x.wire) = 1
    /\ x.wire[1].status = 200

\* C14: the credential given to the auth gate is the value of the header
\* x-typesense-api-key when the request has that header (also when it has a query
\* parameter of that name, and also when the header's value is empty), the
\* value of the query parameter of that name when the header is absent, and the
\* empty string when both are absent.
C14_CredentialHeaderFirst ==
    \A k \in DOMAIN x.auth :
        x.auth[k].auth_key =
            IF req.auth_header.present THEN req.auth_header.value
            ELSE IF \E q \in DOMAIN req.query : req.query[q][1] = "x-typesense-api-key"
                 THEN JoinValues(DecodedValues(req.query, "x-typesense-api-key"))
                 ELSE ""

\* header k2 and query parameter k1: the gate was asked about k2
C14_Witness ==
    /\ Served
    /\ req.auth_header = Header("k2")
    /\ req.query = << <<AUTH_HEADER, "k1">> >>
    /\ Len(x.auth) = 1
    /\ x.auth[1].auth_key = "k2"

\* the first route, in registration order, that the request matches
FirstMatch == CHOOSE m \in MatchingRoutes : \A n \in MatchingRoutes : m <= n

\* C21: when the auth gate rejects the first registered route that matches the
\* request, the dispatcher asks the gate about that route only and answers with
\* one final write of status 401: no route registered later is given to the
\* gate or has its handler called, also not a matching one the gate accepts
\* for the same credential, and the answer is not 404.
C21_RejectionEndsDispatch ==
    (Served /\ MatchingRoutes # {} /\ ~x.gate[FirstMatch]) =>
        /\ Len(x.auth) = 1
        /\ x.auth[1].rpath = FirstMatch
        /\ ~x.auth[1].ok
        /\ x.calls = <<>>
        /\ x.ctx = "none"
        /\ Len(x.wire) = 1
        /\ x.wire[1].state = "FINAL"
        /\ x.wire[1].status = 401
        /\ x.wire[1].by = "send_401_unauthorized"

\* two routes match, the gate rejects the first and accepts the second: 401
C21_Witness ==
    /\ Served
    /\ Cardinality(MatchingRoutes) = 2
    /\ \E m \in MatchingRoutes : m # FirstMatch /\ x.gate[m]
    /\ ~x.gate[FirstMatch]
    /\ Len(x.wire) = 1
    /\ x.wire[1].status = 401

(***************************************************************************)
(* Properties of the reply paths (specification SpecStream)                *)
(***************************************************************************)
WritesBy(names) == SelectSeq(x.wire, LAMBDA w : w.by \in names)

ImmediateTaken == Len(WritesBy({"send_response"})) > 0
StreamingTaken == Len(WritesBy({"stream_response"})) > 0

\* the streaming exchange reached Final: response_proceed sent the last chunk
StreamFinal ==
    /\ x.gen = "freed"
    /\ x.stops = 0
    /\ Len(x.wire) > 0
    /\ x.wire[Len(x.wire)].by = "response_proceed"
    /\ x.wire[Len(x.wire)].state = "FINAL"

\* C6: for a request that reached a handler, the immediate reply and the
\* streaming reply are never both taken, the http_req/http_res pair is released
\* at most once, no freed object is used and no live generator holds a released
\* pair, whatever the route's streaming flag and the handler's actions are.
C6_ExactlyOnePath ==
    Len(x.calls) > 0 =>
        /\ ~(ImmediateTaken /\ StreamingTaken)
        /\ x.started <= 1
        /\ x.releases <= 1
        /\ ~x.ub
        /\ (x.ctx = "freed" => x.gen # "live")

\* C7, as claimed: a streaming exchange that reached Final after N turns made
\* exactly N write calls.
C7_WritesEqualTurns ==
    StreamFinal => Len(x.wire) = x.turns

\* C7, amended: a streaming exchange that reached Final after N turns made N + 1
\* write calls on the streaming path: the empty in-progress chunk of
\* stream_response, then one per turn by response_proceed, the first N - 1 of
\* them in progress and the N-th final; with no send_response for the request
\* these are all its writes.
C7_WritesEqualTurnsPlusOne ==
    StreamFinal =>
        LET sw == WritesBy({"stream_response", "response_proceed"})
        IN /\ Len(sw) = x.turns + 1
           /\ sw[1].by = "stream_response"
           /\ sw[1].state = "IN_PROGRESS"
           /\ sw[1].body = ""
           /\ \A k \in 2..Len(sw) :
                 /\ sw[k].by = "response_proceed"
                 /\ sw[k].state = IF k = Len(sw) THEN "FINAL" ELSE "IN_PROGRESS"
           /\ (~ImmediateTaken => x.wire = sw)

\* Final on the second turn: three writes
C7_Witness ==
    /\ StreamFinal
    /\ x.turns = 2
    /\ Len(x.wire) = 3
    /\ ~x.ub

\* C8: response_stop, called for an exchange that has not reached Final,
\* releases the http_req/http_res pair and the generator once, without a call
\* of the resumption handler and without a write; after it nothing more
\* happens for the request.
C8_StopReleases ==
    [][ /\ ConnectionClosed =>
             /\ x.ctx = "live" /\ x'.ctx = "freed"
             /\ x.gen = "live" /\ x'.gen = "freed"
             /\ x'.releases = x.releases + 1
             /\ x'.releases = 1
             /\ x'.turns = x.turns
             /\ x'.wire = x.wire
             /\ x'.h2o_gen = "none"
             /\ ~x'.ub
        /\ x.stops > 0 => x' = x ]_vars

\* stopped after a turn in which the handler did not set final
C8_Witness ==
    /\ x.stops = 1
    /\ x.turns >= 1
    /\ x.ctx = "freed"
    /\ x.gen = "freed"
    /\ x.wire[Len(x.wire)].state = "IN_PROGRESS"

\* C12: with CORS enabled every write of a response (the preflight 200, the 401,
\* the 404, the immediate reply and every chunk of a streamed reply) goes out
\* with the header access-control-allow-origin: *, and with CORS disabled no
\* write has a header of that name.
C12_AllowOriginIffCors ==
    \A k \in DOMAIN x.wire :
        /\ cors_enabled => HasHeader(x.wire[k].headers, "access-control-allow-origin", "*")
        /\ ~cors_enabled =>
              \A h \in DOMAIN x.wire[k].headers :
                  x.wire[k].headers[h][1] # "access-control-allow-origin"

\* a streamed reply that reached Final on its second turn, with CORS enabled
C12_Witness ==
    /\ cors_enabled
    /\ StreamFinal
    /\ x.turns = 2
    /\ x.wire[1].status = 200
    /\ HasHeader(x.wire[3].headers, "access-control-allow-origin", "*")

\* the route whose handler was called for the request is a streaming route
CalledAsync(e) == routes[e.calls[1].rpath].async

\* C15: in the step that dispatches a request to a handler, catch_all_handler
\* calls send_response exactly once when the route is not a streaming route, after
\* the handler has returned (so that, unless the handler had already released
\* the pair, the last write of the step is the final write of send_response and
\* the pair is released), and does not call it when the route is a streaming
\* route; in no later step does catch_all_handler call send_response for the
\* request.
C15_DispatcherSendsIffSync ==
    [][ /\ (req = NoReq /\ req' # NoReq /\ Len(x'.calls) > 0) =>
              /\ Len(x'.calls) = 1
              /\ x'.dispatcher_sends = IF CalledAsync(x') THEN 0 ELSE 1
              /\ (~CalledAsync(x') /\ ~x'.ub) =>
                    /\ x'.wire[Len(x'.wire)].by = "send_response"
                    /\ x'.wire[Len(x'.wire)].state = "FINAL"
                    /\ x'.ctx = "freed"
        /\ (req = NoReq /\ req' # NoReq /\ Len(x'.calls) = 0) => x'.dispatcher_sends = 0
        /\ req # NoReq => x'.dispatcher_sends = x.dispatcher_sends ]_vars

\* POST /items/42 on the route that is not streaming: the handler filled the
\* response and the dispatcher sent it
C15_Witness ==
    /\ Len(x.calls) = 1
    /\ ~CalledAsync(x)
    /\ x.dispatcher_sends = 1
    /\ Len(x.wire) = 1
    /\ x.wire[1].by = "send_response"
    /\ x.wire[1].status = 201
    /\ x.releases = 1
    /\ ~x.ub

\* response_proceed has sent the last chunk of the exchange
ReachedFinal(e) ==
    /\ Len(e.wire) > 0
    /\ e.wire[Len(e.wire)].by = "response_proceed"
    /\ e.wire[Len(e.wire)].state = "FINAL"

\* C16: the turn of response_proceed in which the exchange reaches Final
\* disposes the request and releases the http_req/http_res pair and the
\* generator, each for the first and only time; from then on no write-ready or
\* connection-closed callback runs for the exchange (the generator is no longer
\* registered): the handler is not called again, response_stop is not called,
\* and nothing of the exchange is read or released again.
C16_FinalReleasesOnce ==
    [][ /\ (~ReachedFinal(x) /\ ReachedFinal(x')) =>
              /\ x.ctx = "live" /\ x'.ctx = "freed"
              /\ x.gen = "live" /\ x'.gen = "freed"
              /\ x'.releases = 1
              /\ x'.disposed = 1
              /\ x'.turns = x.turns + 1
              /\ x'.stops = 0
              /\ x'.h2o_gen = "none"
              /\ ~x'.ub
        /\ ReachedFinal(x) =>
              /\ x' = x
              /\ ~ENABLED WriteReady
              /\ ~ENABLED ConnectionClosed ]_vars

\* Final on the first turn: the empty first chunk, then the last chunk
C16_Witness ==
    /\ ReachedFinal(x)
    /\ x.turns = 1
    /\ Len(x.wire) = 2
    /\ x.releases = 1
    /\ x.disposed = 1
    /\ x.gen = "freed"

\* C18: a write-ready turn of a streaming exchange that has not ended calls the
\* resumption handler once, with the live http_req/http_res pair, and then makes
\* one write: the body as the handler left it in this turn, in progress when
\* the handler left final false and final when it left final true.  The handler
\* finds the body as the previous turn (or the route's handler) left it: no
\* other step of the exchange changes the body while the generator is
\* registered.
C18_OneCallOneWritePerTurn ==
    [][ /\ WriteReady =>
              /\ x.ctx = "live"
              /\ x.gen = "live"
              /\ x'.turns = x.turns + 1
              /\ Len(x'.wire) = Len(x.wire) + 1
              /\ SubSeq(x'.wire, 1, Len(x.wire)) = x.wire
              /\ x'.wire[Len(x'.wire)].by = "response_proceed"
              /\ x'.wire[Len(x'.wire)].body = x'.res.body
              /\ x'.wire[Len(x'.wire)].state = IF x'.res.final THEN "FINAL" ELSE "IN_PROGRESS"
              /\ x'.res.body \in {x.res.body \o "c", "r", x.res.body}
        /\ (x.h2o_gen = "custom" /\ ~WriteReady) => x'.res.body = x.res.body ]_vars

\* two turns in which the handler appended: the chunks okc, in progress, and okcc, final
C18_Witness ==
    /\ x.turns = 2
    /\ Len(x.wire) = 3
    /\ x.wire[2].by = "response_proceed"
    /\ x.wire[2].body = "okc"
    /\ x.wire[2].state = "IN_PROGRESS"
    /\ x.wire[3].body = "okcc"
    /\ x.wire[3].state = "FINAL"

\* the handler of a streaming route gave the pair to a worker thread, which has
\* not handed it back
HeldByWorker(e) == Len(e.calls) > 0 /\ CalledAsync(e) /\ e.pending

\* the owning thread has done nothing with the pair and the response so far
Untouched(e) ==
    /\ e.ctx = "live"
    /\ e.res = [NoRes EXCEPT !.content_type_header = "application/json; charset=utf-8"]
    /\ e.releases = 0
    /\ e.gen = "none"
    /\ e.started = 0
    /\ e.wire = <<>>
    /\ ~e.ub

\* C19: the step that dispatches a request to a streaming route ends without a
\* send_response by the dispatcher, and when the handler gave the pair to a
\* worker thread the step leaves the pair live, unread and unwritten; while the
\* worker holds the pair the owning thread does nothing with the exchange, and
\* the only step that changes it is the callback of the message by which the
\* worker hands it back.
C19_AsyncHandOff ==
    [][ /\ (req = NoReq /\ req' # NoReq /\ Len(x'.calls) > 0 /\ CalledAsync(x')) =>
              /\ x'.dispatcher_sends = 0
              /\ x'.pending => Untouched(x')
        /\ (HeldByWorker(x) /\ x' # x) =>
              /\ Untouched(x)
              /\ ~x'.pending
              /\ callback_send_response \/ callback_stream_response ]_vars

\* GET /items/42 on the streaming route, the pair is with a worker thread
C19_Witness ==
    /\ req # NoReq
    /\ req.method = "GET"
    /\ HeldByWorker(x)
    /\ Untouched(x)
    /\ x.dispatcher_sends = 0

(***************************************************************************)
(* Properties of the message relay (specification SpecRelay)               *)
(***************************************************************************)
\* the data of the messages the worker threads have sent
SentData == {d \in Workers \X (1..MaxSend) : d[2] <= sent[d[1]]}

DeliveredData == {delivered[k].data : k \in DOMAIN delivered}
DeletedData == {deleted[k].data : k \in DOMAIN deleted}

\* the event loop waits, and the queue has nothing to wake it for
LoopIdle == owner_pc = "loop" /\ ~wake

\* C9: with any interleaving of the worker threads' send_message calls, a
\* message is given to a callback at most once, only to the callback of its
\* registered type and only by the owning thread, the messages of one thread are
\* delivered in the order the thread sent them, and once the event loop has
\* drained the queue every message sent so far was consumed, each one of a
\* registered type by a call of its callback.
C9_DeliveredOnceInOrder ==
    /\ \A i, j \in DOMAIN delivered : i # j => delivered[i].data # delivered[j].data
    /\ \A i, j \in DOMAIN deleted : i # j => deleted[i].data # deleted[j].data
    /\ \A i \in DOMAIN delivered :
          /\ delivered[i].thread = "owner"
          /\ delivered[i].type \in message_handlers
          /\ delivered[i].data \in SentData \cup {<<"stop", 1>>}
    /\ \A i, j \in DOMAIN delivered :
          (i < j /\ delivered[i].data[1] = delivered[j].data[1]) =>
              delivered[i].data[2] < delivered[j].data[2]
    /\ LoopIdle =>
          /\ inbox = <<>> /\ batch = <<>>
          /\ SentData \subseteq DeletedData
    /\ \A k \in DOMAIN deleted :
          deleted[k].type \in message_handlers => deleted[k].data \in DeliveredData

\* both workers' messages were delivered, two of them from the same worker
C9_Witness ==
    /\ LoopIdle
    /\ Len(delivered) = 3
    /\ \E i, j \in DOMAIN delivered :
          i < j /\ delivered[i].data = <<"w1", 1>> /\ delivered[j].data = <<"w1", 2>>
    /\ \E i \in DOMAIN delivered : delivered[i].data[1] = "w2"
    /\ SentData \subseteq DeliveredData

\* C10: when the destructor has released the queue and the receiver, no message
\* of a worker thread whose type has a callback is left in the receiver's list:
\* every such message sent before or during the teardown was delivered by the
\* destructor's drain.
C10_NothingLeftAtRelease ==
    owner_pc = "destroyed" =>
        \A k \in DOMAIN inbox :
            inbox[k].data[1] \in Workers => inbox[k].type \notin message_handlers

\* the owning thread is inside the loop of on_message over the receiver's own
\* list, which the destructor gave it without taking the queue's mutex
UnlockedWalk == owner_pc = "destructor_drain" /\ receiver = "registered"

\* C17: no thread links a message into the receiver's list while the owning
\* thread is in the middle of reading and unlinking that list: a send_message
\* (of a worker thread or of stop()) never falls inside a drain of the inbox,
\* be it the event loop's or the destructor's.
C17_InboxAccessExclusive ==
    [][ (send_message \/ stop_message) => ~UnlockedWalk ]_vars

\* run() has returned
RunReturned == owner_pc \in {"returned", "destructor_drain", "drained", "destroyed"}

\* C20: once stop() has been called, run() returns: whether the event loop is
\* idle or busy when exit_loop is written and when the message is sent, the
\* loop is woken, tests exit_loop after the write and ends.
C20_StopEndsRun == (stop_pc # "idle") ~> RunReturned

\* stop() has ended, the event loop drained the stop message and called its
\* callback on the owning thread, and run() has returned (the destructor has not
\* begun)
C20_Witness ==
    /\ owner_pc = "returned"
    /\ exit_loop
    /\ stop_pc = "done"
    /\ \E k \in DOMAIN delivered :
          /\ delivered[k].type = STOP_SERVER_MESSAGE
          /\ delivered[k].thread = "owner"
    /\ \E k \in DOMAIN deleted : deleted[k].type = STOP_SERVER_MESSAGE

\* the messages deleted so far whose type has a callback, in the order of deletion
DeletedRegistered == SelectSeq(deleted, LAMBDA m : m.type \in message_handlers)

\* C22: a message whose type has no callback is unlinked and deleted by the
\* drain once, and no callback is called for it; it holds nothing back and
\* changes no order: the calls of callbacks are exactly the deleted messages of
\* registered types, in the order of deletion, and when the event loop has
\* drained the queue every message sent so far has been deleted.
C22_UnregisteredConsumed ==
    /\ \A i, j \in DOMAIN deleted : i # j => deleted[i].data # deleted[j].data
    /\ \A k \in DOMAIN deleted :
          deleted[k].type \notin message_handlers => deleted[k].data \notin DeliveredData
    /\ Len(delivered) = Len(DeletedRegistered)
    /\ \A k \in DOMAIN delivered :
          /\ delivered[k].data = DeletedRegistered[k].data
          /\ delivered[k].type = DeletedRegistered[k].type
    /\ LoopIdle =>
          /\ inbox = <<>> /\ batch = <<>>
          /\ SentData \subseteq DeletedData

\* no callback for U: a worker's U message was deleted without a call, and the
\* T message the same worker sent after it was delivered
C22_Witness ==
    /\ LoopIdle
    /\ "U" \notin message_handlers
    /\ "T" \in message_handlers
    /\ \E i, j \in DOMAIN deleted :
          /\ i < j
          /\ deleted[i].type = "U"
          /\ deleted[j].type = "T"
          /\ deleted[i].data[1] = deleted[j].data[1]
          /\ deleted[i].data \notin DeliveredData
          /\ deleted[j].data \in DeliveredData

====
